---------------------------- MODULE Spec2Model ----------------------------
(***************************************************************************)
(* cosmovisor/process.go: LaunchProcess supervises a child process, two    *)
(* goroutines scan its stdout and stderr for an upgrade marker, a third    *)
(* forwards SIGQUIT/SIGTERM, and WaitResult aggregates what they report.   *)
(*                                                                         *)
(* Optional values (Go pointers and errors) are sequences of length <= 1:  *)
(* Nil is the empty sequence, <<x>> is a non-nil value.  An UpgradeInfo is *)
(* identified by the index of its name.                                    *)
(***************************************************************************)
EXTENDS Naturals, Sequences, FiniteSets, TLC

\* ------------------------------------------------------------- bounds
\* How many different upgrade descriptors the child may print.
NumUpgrades == 2
\* How far around bufio.MaxScanTokenSize the configured buffer sizes range.
MaxDelta == 2

\* bufio.MaxScanTokenSize = 64 * 1024
MaxScanTokenSize == 65536

Nil == <<>>
Some(x) == <<x>>

Streams == {"stdout", "stderr"}
Upgrades == 1..NumUpgrades
Signals == {"SIGQUIT", "SIGTERM"}

\* What a scanner finds next on its stream: nothing of interest, a line that
\* matches the upgrade marker, or a line the scanner fails on.
NoLine == [kind |-> "none", name |-> 0]
MarkerLine(d) == [kind |-> "marker", name |-> d]
BadLine == [kind |-> "bad", name |-> 0]
Lines == {NoLine, BadLine} \cup {MarkerLine(d) : d \in Upgrades}

\* The states of <home>/data/upgrade-info.json that doBackup distinguishes.
FileStates == {"missing", "garbage", "emptyname", "named"}
\* The file has not been looked at yet.
Unread == "unread"

\* cfg.LogBufferSize: unset (0), or a size near the minimum.
BufferSizes ==
    {0} \cup ((MaxScanTokenSize - MaxDelta)..(MaxScanTokenSize + MaxDelta))

VARIABLES
    cfg,             \* *Config: [UnsafeSkipBackup, LogBufferSize]
    earlyErr,        \* history: a watcher's SetError stored an error before line 204
    binErr,          \* the error of cfg.CurrentBin() or EnsureBinary(bin)
    scanCap,         \* per stream: the capacity given to scan.Buffer, or Nil
    upgradeInfoFile, \* what doBackup finds at <home>/data/upgrade-info.json
    hang,            \* the child never exits of its own accord
    pc,              \* where LaunchProcess (the main goroutine) stands
    ret,             \* what LaunchProcess returned: [upgraded, err]
    res,             \* the WaitResult of the run: [info, err]
    wres,            \* what WaitForUpgradeOrExit returned: [info, err]
    waitErr,         \* err of cmd.Wait() (line 199)
    wpc,             \* per stream: where its waitScan goroutine stands
    wval,            \* per stream: what WaitForUpdate returned to it
    stream,          \* per stream: the next line of interest, unread
    childState,      \* "notstarted", "running", "exited"
    exitErr,         \* what cmd.Wait() reports once the child has exited
    waited,          \* cmd.Wait() has returned: child reaped, pipes closed
    sigs,            \* the channel sigs (capacity 1)
    fpc,             \* where the forwarding goroutine stands
    fsig,            \* the signal it took from the channel
    signalled,       \* the supervisor has been sent a signal
    forwarded,       \* every signal cmd.Process.Signal delivered to the child
    aborted,         \* log.Fatal ended the supervisor process
    killRequested,   \* cmd.Process.Kill() has been called
    backup,          \* doBackup: [called, done, err, read, copied]
    upgradeInvoked   \* DoUpgrade has been called

envVars == <<cfg, upgradeInfoFile, hang>>
mainVars == <<pc, ret, wres, waitErr>>
watchVars == <<wpc, wval>>
childVars == <<childState, exitErr>>
sigVars == <<sigs, fpc, fsig, signalled, forwarded>>
tailVars == <<backup, upgradeInvoked>>
vars == <<earlyErr, binErr, scanCap, envVars, mainVars, res, watchVars, stream, childVars, waited, sigVars,
          aborted, killRequested, tailVars>>

\* ------------------------------------------------------------ WaitResult
\* (the mutex makes each method one atomic step)

AsResult(u) == [info |-> u.info, err |-> u.err]

SetErrorIgnoresInfo(u, myErr) ==
    IF myErr # Nil THEN [u EXCEPT !.err = myErr] ELSE u

SetError(u, myErr) ==
    IF u.info = Nil /\ myErr # Nil THEN [u EXCEPT !.err = myErr] ELSE u

SetUpgradeKeepsErr(u, up) ==
    IF u.info = Nil /\ up # Nil THEN [u EXCEPT !.info = up] ELSE u

SetUpgradeOverwrites(u, up) ==
    IF up # Nil THEN [u EXCEPT !.info = up, !.err = Nil] ELSE u

SetUpgrade(u, up) ==
    IF u.info = Nil /\ up # Nil THEN [u EXCEPT !.info = up, !.err = Nil] ELSE u

\* ------------------------------------------------------------------ Init
\* (nil, nil)
NoResult == [info |-> Nil, err |-> Nil]

NotCalled == [called |-> FALSE, done |-> FALSE, err |-> Nil,
              read |-> FALSE, copied |-> FALSE]

\* The state at the call of LaunchProcess, for the configured sizes given.
InitWith(sizes) ==
    /\ cfg \in [UnsafeSkipBackup : BOOLEAN, LogBufferSize : sizes]
    /\ earlyErr = FALSE
    /\ binErr = Nil
    /\ scanCap = [s \in Streams |-> Nil]
    /\ upgradeInfoFile = Unread
    /\ hang \in BOOLEAN
    /\ pc = "CurrentBin"
    /\ ret = [upgraded |-> FALSE, err |-> Nil]
    /\ res = NoResult
    /\ wres = NoResult
    /\ waitErr = Nil
    /\ wpc = [s \in Streams |-> "idle"]
    /\ wval = [s \in Streams |-> NoResult]
    /\ stream = [s \in Streams |-> NoLine]
    /\ childState = "notstarted"
    /\ exitErr = Nil
    /\ waited = FALSE
    /\ sigs = <<>>
    /\ fpc = "idle"
    /\ fsig = Nil
    /\ signalled = FALSE
    /\ forwarded = <<>>
    /\ aborted = FALSE
    /\ killRequested = FALSE
    /\ backup = NotCalled
    /\ upgradeInvoked = FALSE

\* LaunchProcess is called with the buffer size left unset.
Init == InitWith({0})

\* LaunchProcess is called with any of the configured buffer sizes.
InitAnySize == InitWith(BufferSizes)

\* LaunchProcess returns (upgraded, err).
Return(upgraded, err) ==
    /\ pc' = "returned"
    /\ ret' = [upgraded |-> upgraded, err |-> err]


\* ------------------------------------------------- LaunchProcess, lines 24-61
CurrentBinIgnoresErr ==
    /\ ~aborted /\ pc = "CurrentBin"
    /\ \E ok \in BOOLEAN :
          /\ binErr' = IF ok THEN Nil ELSE Some("CurrentBin")
          /\ pc' = "EnsureBinary" /\ ret' = ret
    /\ UNCHANGED <<earlyErr, scanCap, envVars, wres, waitErr, res, watchVars, stream,
                   childVars, waited, sigVars, aborted, killRequested, tailVars>>

\* cfg.CurrentBin() succeeds or fails.
CurrentBin ==
    /\ ~aborted /\ pc = "CurrentBin"
    /\ \E ok \in BOOLEAN :
          IF ok THEN pc' = "EnsureBinary" /\ ret' = ret /\ binErr' = Nil
                ELSE /\ binErr' = Some("CurrentBin")
                     /\ Return(FALSE, Some("error creating symlink to genesis"))
    /\ UNCHANGED <<earlyErr, scanCap, envVars, wres, waitErr, res, watchVars, stream, childVars,
                   waited, sigVars, aborted, killRequested, tailVars>>

EnsureBinary ==
    /\ ~aborted /\ pc = "EnsureBinary"
    /\ \E ok \in BOOLEAN :
          IF ok THEN pc' = "StdoutPipe" /\ ret' = ret /\ binErr' = Nil
                ELSE /\ binErr' = Some("EnsureBinary")
                     /\ Return(FALSE, Some("current binary invalid"))
    /\ UNCHANGED <<earlyErr, scanCap, envVars, wres, waitErr, res, watchVars, stream, childVars,
                   waited, sigVars, aborted, killRequested, tailVars>>

StdoutPipe ==
    /\ ~aborted /\ pc = "StdoutPipe"
    /\ \E ok \in BOOLEAN :
          IF ok THEN pc' = "StderrPipe" /\ ret' = ret
                ELSE Return(FALSE, Some("StdoutPipe"))
    /\ UNCHANGED <<earlyErr, binErr, scanCap, envVars, wres, waitErr, res, watchVars, stream, childVars,
                   waited, sigVars, aborted, killRequested, tailVars>>

StderrPipe ==
    /\ ~aborted /\ pc = "StderrPipe"
    /\ \E ok \in BOOLEAN :
          IF ok THEN pc' = "Buffer" /\ ret' = ret
                ELSE Return(FALSE, Some("StderrPipe"))
    /\ UNCHANGED <<earlyErr, binErr, scanCap, envVars, wres, waitErr, res, watchVars, stream, childVars,
                   waited, sigVars, aborted, killRequested, tailVars>>

maxCapacityNoMinimum(n) == n

\* Lines 48-53: the capacity computed from cfg.LogBufferSize.
maxCapacity(n) == IF n < MaxScanTokenSize THEN MaxScanTokenSize ELSE n

\* scanOut.Buffer(bufOut, maxCapacity); scanErr.Buffer(bufErr, maxCapacity)
ScannerBuffer ==
    /\ ~aborted /\ pc = "Buffer"
    /\ scanCap' = [s \in Streams |-> Some(maxCapacity(cfg.LogBufferSize))]
    /\ pc' = "Start"
    /\ UNCHANGED <<earlyErr, binErr, envVars, ret, wres, waitErr, res, watchVars, stream,
                   childVars, waited, sigVars, aborted, killRequested, tailVars>>

\* cmd.Start(): the child runs, or the launch fails.
Start ==
    /\ ~aborted /\ pc = "Start"
    /\ \E ok \in BOOLEAN :
          IF ok THEN /\ pc' = "Notify" /\ ret' = ret
                     /\ childState' = "running"
                ELSE /\ Return(FALSE, Some("launching process"))
                     /\ childState' = childState
    /\ UNCHANGED <<earlyErr, binErr, scanCap, envVars, wres, waitErr, res, watchVars, stream, exitErr,
                   waited, sigVars, aborted, killRequested, tailVars>>

\* --------------------------------------------- the signal forwarder, 63-70
\* signal.Notify registers the channel and the goroutine starts receiving.
Notify ==
    /\ ~aborted /\ pc = "Notify"
    /\ pc' = "WaitForUpgradeOrExit"
    /\ fpc' = "recv"
    /\ UNCHANGED <<earlyErr, binErr, scanCap, envVars, ret, wres, waitErr, res, watchVars, stream,
                   childVars, waited, sigs, fsig, signalled, forwarded, aborted,
                   killRequested, tailVars>>

\* The operator sends SIGQUIT or SIGTERM to the supervisor.  The signal
\* package sends on the channel without blocking: a signal that finds the
\* one-slot channel full is dropped.
OperatorSignal(sig) ==
    /\ ~aborted /\ fpc # "idle"
    /\ signalled' = TRUE
    /\ sigs' = IF Len(sigs) < 1 THEN Append(sigs, sig) ELSE sigs
    /\ UNCHANGED <<earlyErr, binErr, scanCap, envVars, mainVars, res, watchVars, stream, childVars, waited,
                   fpc, fsig, forwarded, aborted, killRequested, tailVars>>

\* sig := <-sigs
ForwarderRecv ==
    /\ ~aborted /\ fpc = "recv" /\ sigs # <<>>
    /\ fsig' = Some(Head(sigs))
    /\ sigs' = Tail(sigs)
    /\ fpc' = "Signal"
    /\ UNCHANGED <<earlyErr, binErr, scanCap, envVars, mainVars, res, watchVars, stream, childVars, waited,
                   signalled, forwarded, aborted, killRequested, tailVars>>

\* cmd.Process.Signal(sig) fails once cmd.Wait() has reaped the child, and
\* the failure is log.Fatal; otherwise the goroutine ends.
ForwarderSignal ==
    /\ ~aborted /\ fpc = "Signal"
    /\ fpc' = "done"
    /\ fsig' = Nil
    /\ IF waited
          THEN aborted' = TRUE /\ forwarded' = forwarded
          ELSE /\ aborted' = aborted
               /\ forwarded' = IF childState = "running"
                                  THEN Append(forwarded, fsig[1])
                                  ELSE forwarded
    /\ UNCHANGED <<earlyErr, binErr, scanCap, envVars, mainVars, res, watchVars, stream, childVars, waited,
                   sigs, signalled, killRequested, tailVars>>

\* ------------------------------------------------------------- the child
\* The child prints a line of interest on one of its streams.
ChildWrite(s, l) ==
    /\ childState = "running"
    /\ stream[s] = NoLine
    /\ wpc[s] \in {"idle", "scan"}
    /\ stream' = [stream EXCEPT ![s] = l]
    /\ UNCHANGED <<earlyErr, binErr, scanCap, envVars, mainVars, res, watchVars, childVars, waited, sigVars,
                   aborted, killRequested, tailVars>>

\* The child exits of its own accord, with status 0 or not.
ChildExit ==
    /\ childState = "running" /\ ~hang
    /\ childState' = "exited"
    /\ \E e \in {Nil, Some("exit status 1")} : exitErr' = e
    /\ UNCHANGED <<earlyErr, binErr, scanCap, envVars, mainVars, res, watchVars, stream, waited, sigVars,
                   aborted, killRequested, tailVars>>

\* The child ends on a forwarded signal: it shuts down cleanly or dies of it.
ChildExitOnSignal ==
    /\ childState = "running" /\ forwarded # <<>>
    /\ childState' = "exited"
    /\ \E e \in {Nil, Some("signal: terminated")} : exitErr' = e
    /\ UNCHANGED <<earlyErr, binErr, scanCap, envVars, mainVars, res, watchVars, stream, waited, sigVars,
                   aborted, killRequested, tailVars>>

\* ------------------------------------------ WaitForUpgradeOrExit, 178-206
\* go waitScan(scanOut); go waitScan(scanErr)
StartWatchers ==
    /\ ~aborted /\ pc = "WaitForUpgradeOrExit"
    /\ pc' = "Wait"
    /\ wpc' = [s \in Streams |-> "scan"]
    /\ UNCHANGED <<earlyErr, binErr, scanCap, envVars, ret, wres, waitErr, res, wval, stream, childVars,
                   waited, sigVars, aborted, killRequested, tailVars>>

\* The (info, err) pairs WaitForUpdate can return on stream s now: the
\* marker it reads, the error of a line the scanner fails on, (nil, nil) at
\* the end of the stream, or a read error once cmd.Wait() closed the pipe.
WaitForUpdate(s) ==
    (IF stream[s].kind = "marker"
        THEN {[info |-> Some(stream[s].name), err |-> Nil]} ELSE {})
    \cup (IF stream[s].kind = "bad"
        THEN {[info |-> Nil, err |-> Some("scan error")]} ELSE {})
    \cup (IF stream[s].kind = "none" /\ childState = "exited"
        THEN {[info |-> Nil, err |-> Nil]} ELSE {})
    \cup (IF waited
        THEN {[info |-> Nil, err |-> Some("file already closed")]} ELSE {})

WaitScanKillsOnError(s) ==
    /\ ~aborted /\ wpc[s] = "scan"
    /\ \E r \in WaitForUpdate(s) :
          /\ wval' = [wval EXCEPT ![s] = r]
          /\ wpc' = [wpc EXCEPT ![s] =
                        IF r.err # Nil THEN "Kill"
                        ELSE IF r.info # Nil THEN "SetUpgrade" ELSE "done"]
    /\ stream' = [stream EXCEPT ![s] = NoLine]
    /\ UNCHANGED <<earlyErr, binErr, scanCap, envVars, mainVars, res, childVars, waited, sigVars, aborted,
                   killRequested, tailVars>>

\* upgrade, err := WaitForUpdate(scan), and the branch taken on its result.
WaitScan(s) ==
    /\ ~aborted /\ wpc[s] = "scan"
    /\ \E r \in WaitForUpdate(s) :
          /\ wval' = [wval EXCEPT ![s] = r]
          /\ wpc' = [wpc EXCEPT ![s] =
                        IF r.err # Nil THEN "SetError"
                        ELSE IF r.info # Nil THEN "SetUpgrade" ELSE "done"]
    /\ stream' = [stream EXCEPT ![s] = NoLine]
    /\ UNCHANGED <<earlyErr, binErr, scanCap, envVars, mainVars, res, childVars, waited, sigVars, aborted,
                   killRequested, tailVars>>

\* res.SetError(err) of a watcher
WatcherSetError(s) ==
    /\ ~aborted /\ wpc[s] = "SetError"
    /\ res' = SetError(res, wval[s].err)
    /\ earlyErr' = (earlyErr \/ (res.info = Nil /\ pc \in {"Wait", "SetError"}))
    /\ wpc' = [wpc EXCEPT ![s] = "done"]
    /\ wval' = [wval EXCEPT ![s] = NoResult]
    /\ UNCHANGED <<binErr, scanCap, envVars, mainVars, stream, childVars, waited, sigVars,
                   aborted, killRequested, tailVars>>

\* res.SetUpgrade(upgrade) of a watcher
WatcherSetUpgrade(s) ==
    /\ ~aborted /\ wpc[s] = "SetUpgrade"
    /\ res' = SetUpgrade(res, wval[s].info)
    /\ wpc' = [wpc EXCEPT ![s] = "Kill"]
    /\ UNCHANGED <<earlyErr, binErr, scanCap, envVars, mainVars, wval, stream, childVars, waited, sigVars,
                   aborted, killRequested, tailVars>>

WatcherKillSpares(s) ==
    /\ ~aborted /\ wpc[s] = "Kill"
    /\ wpc' = [wpc EXCEPT ![s] = "done"]
    /\ wval' = [wval EXCEPT ![s] = NoResult]
    /\ UNCHANGED <<earlyErr, binErr, scanCap, envVars, mainVars, res, stream, childVars, waited,
                   sigVars, aborted, killRequested, tailVars>>

WatcherKillKillsAgain(s) ==
    /\ ~aborted /\ wpc[s] = "Kill"
    /\ wpc' = [wpc EXCEPT ![s] = "done"]
    /\ wval' = [wval EXCEPT ![s] = NoResult]
    /\ killRequested' = TRUE
    /\ childState' = "exited" /\ exitErr' = Some("signal: killed")
    /\ UNCHANGED <<earlyErr, binErr, scanCap, envVars, mainVars, res, stream, waited, sigVars,
                   aborted, tailVars>>

\* _ = cmd.Process.Kill(): ends a running child; on a child that has exited
\* it fails and the error is discarded.
WatcherKill(s) ==
    /\ ~aborted /\ wpc[s] = "Kill"
    /\ wpc' = [wpc EXCEPT ![s] = "done"]
    /\ wval' = [wval EXCEPT ![s] = NoResult]
    /\ killRequested' = TRUE
    /\ IF childState = "running"
          THEN childState' = "exited" /\ exitErr' = Some("signal: killed")
          ELSE UNCHANGED childVars
    /\ UNCHANGED <<earlyErr, binErr, scanCap, envVars, mainVars, res, stream, waited, sigVars,
                   aborted, tailVars>>

CmdWaitAlwaysRecords ==
    /\ ~aborted /\ pc = "Wait"
    /\ childState = "exited"
    /\ waited' = TRUE
    /\ waitErr' = exitErr
    /\ pc' = "SetError"
    /\ UNCHANGED <<earlyErr, binErr, scanCap, envVars, ret, wres, res, watchVars, stream, childVars,
                   sigVars, aborted, killRequested, tailVars>>

CmdWaitDoesNotBlock ==
    /\ ~aborted /\ pc = "Wait"
    /\ waited' = TRUE
    /\ waitErr' = exitErr
    /\ IF exitErr = Nil
          THEN pc' = "CheckResult" /\ wres' = NoResult
          ELSE pc' = "SetError" /\ wres' = wres
    /\ UNCHANGED <<earlyErr, binErr, scanCap, envVars, ret, res, watchVars, stream, childVars, sigVars,
                   aborted, killRequested, tailVars>>

\* err := cmd.Wait(); if err == nil { return nil, nil }
CmdWait ==
    /\ ~aborted /\ pc = "Wait"
    /\ childState = "exited"
    /\ waited' = TRUE
    /\ waitErr' = exitErr
    /\ IF exitErr = Nil
          THEN pc' = "CheckResult" /\ wres' = NoResult
          ELSE pc' = "SetError" /\ wres' = wres
    /\ UNCHANGED <<earlyErr, binErr, scanCap, envVars, ret, res, watchVars, stream, childVars, sigVars,
                   aborted, killRequested, tailVars>>

\* res.SetError(err) of the process-exit path
MainSetError ==
    /\ ~aborted /\ pc = "SetError"
    /\ res' = SetError(res, waitErr)
    /\ pc' = "AsResult"
    /\ UNCHANGED <<earlyErr, binErr, scanCap, envVars, ret, wres, waitErr, watchVars, stream, childVars,
                   waited, sigVars, aborted, killRequested, tailVars>>

\* return res.AsResult()
MainAsResult ==
    /\ ~aborted /\ pc = "AsResult"
    /\ wres' = AsResult(res)
    /\ pc' = "CheckResult"
    /\ UNCHANGED <<earlyErr, binErr, scanCap, envVars, ret, res, waitErr, watchVars, stream, childVars,
                   waited, sigVars, aborted, killRequested, tailVars>>

\* --------------------------------------------------- LaunchProcess, 73-87
CheckResultDropsErr ==
    /\ ~aborted /\ pc = "CheckResult"
    /\ IF wres.info # Nil THEN pc' = "doBackup" /\ ret' = ret
       ELSE Return(FALSE, Nil)
    /\ UNCHANGED <<earlyErr, binErr, scanCap, envVars, wres, waitErr, res, watchVars, stream, childVars,
                   waited, sigVars, aborted, killRequested, tailVars>>

\* upgradeInfo, err := WaitForUpgradeOrExit(...) and the branches on it
CheckResult ==
    /\ ~aborted /\ pc = "CheckResult"
    /\ IF wres.err # Nil THEN Return(FALSE, wres.err)
       ELSE IF wres.info # Nil THEN pc' = "doBackup" /\ ret' = ret
       ELSE Return(FALSE, Nil)
    /\ UNCHANGED <<earlyErr, binErr, scanCap, envVars, wres, waitErr, res, watchVars, stream, childVars,
                   waited, sigVars, aborted, killRequested, tailVars>>

\* ---------------------------------------------------------- doBackup, 89-130
\* ioutil.ReadFile fails on a file that cannot be read.
ReadFile(f) ==
    IF f = "missing" THEN Some("error while reading upgrade-info.json") ELSE Nil

\* json.Unmarshal fails on content that is not JSON.
Unmarshal(f) == IF f = "garbage" THEN Some("invalid character") ELSE Nil

\* uInfo.Name after a successful Unmarshal
Name(f) == IF f = "named" THEN "upgrade" ELSE ""

doBackupChecksNoName(c, f) ==
    IF c.UnsafeSkipBackup THEN [err |-> Nil, read |-> FALSE, copy |-> FALSE]
    ELSE IF ReadFile(f) # Nil
        THEN [err |-> ReadFile(f), read |-> TRUE, copy |-> FALSE]
    ELSE IF Unmarshal(f) # Nil
        THEN [err |-> Unmarshal(f), read |-> TRUE, copy |-> FALSE]
    ELSE [err |-> Nil, read |-> TRUE, copy |-> TRUE]

\* Lines 91-106: the error doBackup returns before it copies anything, whether
\* it read the file, and whether it goes on to copy.
doBackupChecks(c, f) ==
    IF c.UnsafeSkipBackup THEN [err |-> Nil, read |-> FALSE, copy |-> FALSE]
    ELSE IF ReadFile(f) # Nil
        THEN [err |-> ReadFile(f), read |-> TRUE, copy |-> FALSE]
    ELSE IF Unmarshal(f) # Nil
        THEN [err |-> Unmarshal(f), read |-> TRUE, copy |-> FALSE]
    ELSE IF Name(f) = ""
        THEN [err |-> Some("upgrade-info.json is empty"), read |-> TRUE,
              copy |-> FALSE]
    ELSE [err |-> Nil, read |-> TRUE, copy |-> TRUE]

\* doBackup(cfg) up to the copy; the file is in whatever state the child and
\* the operator left it in.
DoBackupCheck ==
    /\ ~aborted /\ pc = "doBackup"
    /\ \E f \in FileStates :
        LET r == doBackupChecks(cfg, f) IN
          /\ upgradeInfoFile' = IF r.read THEN f ELSE upgradeInfoFile
          /\ backup' = [called |-> TRUE, done |-> ~r.copy, err |-> r.err,
                        read |-> r.read, copied |-> FALSE]
          /\ pc' = IF r.copy THEN "Copy" ELSE "BackupReturn"
    /\ UNCHANGED <<earlyErr, binErr, scanCap, cfg, hang, ret, wres, waitErr, res, watchVars, stream,
                   childVars, waited, sigVars, aborted, killRequested,
                   upgradeInvoked>>

\* copy.Copy(<home>/data, dst) succeeds or fails, and doBackup returns.
DoBackupCopy ==
    /\ ~aborted /\ pc = "Copy"
    /\ \E ok \in BOOLEAN :
          backup' = [backup EXCEPT
                        !.copied = TRUE, !.done = TRUE,
                        !.err = IF ok THEN Nil
                                ELSE Some("error while taking data backup")]
    /\ pc' = "BackupReturn"
    /\ UNCHANGED <<earlyErr, binErr, scanCap, envVars, ret, wres, waitErr, res, watchVars, stream,
                   childVars, waited, sigVars, aborted, killRequested,
                   upgradeInvoked>>

BackupReturnIgnoresErr ==
    /\ ~aborted /\ pc = "BackupReturn"
    /\ pc' = "DoUpgrade" /\ ret' = ret
    /\ UNCHANGED <<earlyErr, binErr, scanCap, envVars, wres, waitErr, res, watchVars, stream, childVars,
                   waited, sigVars, aborted, killRequested, tailVars>>

\* if err := doBackup(cfg); err != nil { return false, err }
BackupReturn ==
    /\ ~aborted /\ pc = "BackupReturn"
    /\ IF backup.err # Nil THEN Return(FALSE, backup.err)
                           ELSE pc' = "DoUpgrade" /\ ret' = ret
    /\ UNCHANGED <<earlyErr, binErr, scanCap, envVars, wres, waitErr, res, watchVars, stream, childVars,
                   waited, sigVars, aborted, killRequested, tailVars>>

\* return true, DoUpgrade(cfg, upgradeInfo): the installer succeeds or fails.
DoUpgrade ==
    /\ ~aborted /\ pc = "DoUpgrade"
    /\ upgradeInvoked' = TRUE
    /\ \E e \in {Nil, Some("upgrade failed")} : Return(TRUE, e)
    /\ UNCHANGED <<earlyErr, binErr, scanCap, envVars, wres, waitErr, res, watchVars, stream, childVars,
                   waited, sigVars, aborted, killRequested, backup>>

\* ------------------------------------------------------------ specification
Main ==
    \/ CurrentBin \/ EnsureBinary \/ StdoutPipe \/ StderrPipe
    \/ ScannerBuffer \/ Start
    \/ Notify \/ StartWatchers \/ CmdWait \/ MainSetError \/ MainAsResult
    \/ CheckResult \/ DoBackupCheck \/ DoBackupCopy \/ BackupReturn
    \/ DoUpgrade

Watcher(s) ==
    \/ WaitScan(s) \/ WatcherSetError(s) \/ WatcherSetUpgrade(s)
    \/ WatcherKill(s)

Forwarder == ForwarderRecv \/ ForwarderSignal

Child ==
    \/ \E s \in Streams : \E l \in Lines \ {NoLine} : ChildWrite(s, l)
    \/ ChildExit
    \/ ChildExitOnSignal

Operator == \E sig \in Signals : OperatorSignal(sig)

Next ==
    \/ Main
    \/ \E s \in Streams : Watcher(s)
    \/ Forwarder
    \/ Child
    \/ Operator

Spec == Init /\ [][Next]_vars

\* The Go scheduler runs every goroutine that can take a step; the child and
\* the operator act or not as they please.
Fairness ==
    /\ WF_vars(Main)
    /\ \A s \in Streams : WF_vars(Watcher(s))
    /\ WF_vars(Forwarder)

LiveSpec == Spec /\ Fairness

\* LaunchProcess up to cmd.Start(), over every configured buffer size.
Launch ==
    \/ CurrentBin \/ EnsureBinary \/ StdoutPipe \/ StderrPipe
    \/ ScannerBuffer \/ Start

LaunchSpec == InitAnySize /\ [][Launch]_vars

TypeOK ==
    /\ res \in [info : {Nil} \cup {Some(d) : d \in Upgrades}, err : Seq(STRING)]
    /\ childState \in {"notstarted", "running", "exited"}
    /\ Len(sigs) <= 1
    /\ signalled \in BOOLEAN

\* ------------------------------------------------------------------ claims
AllWatchersDone == \A s \in Streams : wpc[s] = "done"

\* WaitForUpgradeOrExit has returned to LaunchProcess.
AfterWait ==
    pc \in {"CheckResult", "doBackup", "Copy", "BackupReturn", "DoUpgrade",
            "returned"}

Killed == Some("signal: killed")

\* C1: whatever the interleaving of the SetError and SetUpgrade calls of the
\* two watchers and of the process-exit path, the WaitResult never holds a
\* descriptor and an error at once.
C1_NeverBoth == ~(res.info # Nil /\ res.err # Nil)

\* All three callers have finished, a descriptor was recorded and the
\* process-exit path called SetError with a non-nil error.
C1_Witness ==
    /\ AllWatchersDone /\ AfterWait
    /\ res.info # Nil /\ waitErr # Nil

\* C2: a recorded descriptor is permanent: no later SetUpgrade or SetError
\* changes it or adds an error, and an AsResult made while it is held returns
\* it with a nil error.
C2_DescriptorPermanent ==
    [][ res.info # Nil =>
           /\ res'.info = res.info
           /\ res'.err = Nil
           /\ (pc = "AsResult" /\ pc' = "CheckResult"
                  => wres' = [info |-> res.info, err |-> Nil]) ]_vars

\* The stderr watcher has just called SetUpgrade with descriptor 2 and a
\* non-nil exit error went through SetError, while descriptor 1 is held.
C2_Witness ==
    /\ res.info = Some(1)
    /\ wpc["stderr"] = "Kill" /\ wval["stderr"].info = Some(2)
    /\ pc = "AsResult" /\ waitErr # Nil

\* C3: while no descriptor is set the first non-nil error wins: a held error
\* is never replaced by another error.
C3_FirstErrorWins ==
    [][ (res.err # Nil /\ res'.err # Nil) => res'.err = res.err ]_vars

\* C4: when a watcher's kill ended the child, WaitForUpgradeOrExit returns
\* the recorded descriptor with a nil error, not the exit error.
C4_KillDoesNotOverride ==
    (AfterWait /\ exitErr = Killed) =>
        /\ wres.info # Nil
        /\ wres = [info |-> res.info, err |-> Nil]

\* WaitForUpgradeOrExit has returned after the child was killed.
C4_Witness == pc = "CheckResult" /\ exitErr = Killed /\ waitErr = Killed

\* C5: when the child exits with a nil error and no descriptor is recorded,
\* WaitForUpgradeOrExit returns (nil, nil), neither backup nor installer runs
\* and LaunchProcess returns (false, nil).
C5_CleanExit ==
    (waited /\ waitErr = Nil /\ res.info = Nil) =>
        /\ wres = NoResult
        /\ ~backup.called /\ ~upgradeInvoked
        /\ pc \in {"CheckResult", "returned"}
        /\ (pc = "returned" => ret = [upgraded |-> FALSE, err |-> Nil])

\* LaunchProcess has returned after a clean exit although a watcher left an
\* error in the WaitResult.
C5_Witness ==
    /\ pc = "returned" /\ waited /\ waitErr = Nil
    /\ res.info = Nil /\ res.err # Nil

\* C6: a child that has printed a valid marker which its watcher has yet to
\* read, and that never exits of its own accord, is eventually killed,
\* WaitForUpgradeOrExit returns the descriptor and LaunchProcess returns:
\* (true, nil) unless the backup or the installer fails.  The statement covers
\* the runs in which the operator sends the supervisor no signal.
C6_MarkerPending ==
    /\ hang /\ ~signalled /\ childState = "running"
    /\ \E s \in Streams :
          stream[s].kind = "marker" /\ wpc[s] \in {"idle", "scan"}

C6_UpgradeReturned ==
    /\ pc = "returned"
    /\ exitErr = Killed
    /\ wres.info # Nil /\ wres.err = Nil
    /\ \/ ret = [upgraded |-> TRUE, err |-> Nil]
       \/ backup.err # Nil /\ ret = [upgraded |-> FALSE, err |-> backup.err]
       \/ ret = [upgraded |-> TRUE, err |-> Some("upgrade failed")]

C6_EventuallyUpgrades ==
    C6_MarkerPending ~> (C6_UpgradeReturned \/ signalled)

\* The upgrade path ran to its end on a hanging child, with no signal.
C6_Witness ==
    /\ hang /\ ~signalled
    /\ C6_UpgradeReturned /\ ret = [upgraded |-> TRUE, err |-> Nil]

\* C7: DoUpgrade is invoked only after doBackup returned nil; when doBackup
\* returns an error LaunchProcess returns (false, that error) and DoUpgrade
\* is never invoked.
C7_BackupGate ==
    /\ (upgradeInvoked \/ pc = "DoUpgrade") => (backup.done /\ backup.err = Nil)
    /\ (backup.done /\ backup.err # Nil) =>
          /\ ~upgradeInvoked
          /\ pc \in {"BackupReturn", "returned"}
          /\ (pc = "returned" =>
                 ret = [upgraded |-> FALSE, err |-> backup.err])

\* LaunchProcess has returned the error of a failed backup.
C7_Witness == pc = "returned" /\ backup.done /\ backup.err # Nil

\* C8: without the skip-backup flag doBackup returns an error and copies
\* nothing when the upgrade-info file is unreadable, unparseable or has an
\* empty name; with the flag it returns nil without reading or copying.
C8_BackupChecks ==
    backup.called =>
        /\ cfg.UnsafeSkipBackup =>
              /\ backup.done /\ backup.err = Nil
              /\ ~backup.read /\ ~backup.copied
              /\ upgradeInfoFile = Unread
        /\ (~cfg.UnsafeSkipBackup
               /\ upgradeInfoFile \in {"missing", "garbage", "emptyname"}) =>
              /\ backup.done /\ backup.err # Nil /\ ~backup.copied

\* doBackup ran without the flag on a file whose name is empty.
C8_Witness ==
    /\ backup.called /\ ~cfg.UnsafeSkipBackup
    /\ upgradeInfoFile = "emptyname"

\* C9: every signal the supervisor receives while the child runs is
\* forwarded, the later ones as well as the first: with the child still
\* running, the forwarder never ends leaving a received signal in the channel.
C9_EverySignalForwarded ==
    (childState = "running" /\ fpc = "done") => sigs = <<>>

\* C10 as claimed: when the run is over, an error was recorded and no
\* descriptor ever was, WaitForUpgradeOrExit returned a non-nil error and
\* LaunchProcess returned (false, non-nil error).
C10_ErrorSurfaced ==
    (pc = "returned" /\ AllWatchersDone /\ res.info = Nil /\ res.err # Nil) =>
        /\ wres.err # Nil
        /\ ret.err # Nil /\ ~ret.upgraded

\* C10 as amended: the recorded error is surfaced when cmd.Wait() returned a
\* non-nil error; when the child exited cleanly the watcher's error is
\* discarded and the run returns (nil, nil) and (false, nil).
C10_ErrorSurfacedUnlessCleanExit ==
    (pc = "returned" /\ AllWatchersDone /\ res.info = Nil /\ res.err # Nil) =>
        IF waitErr # Nil
           THEN /\ wres.info = Nil /\ wres.err # Nil
                /\ ret = [upgraded |-> FALSE, err |-> wres.err]
           ELSE /\ wres = NoResult
                /\ ret = [upgraded |-> FALSE, err |-> Nil]

\* The run is over: a watcher's read error is held, the child exited with an
\* error and no descriptor was recorded.
C10_Witness ==
    /\ pc = "returned" /\ AllWatchersDone /\ res.info = Nil
    /\ res.err \in {Some("scan error"), Some("file already closed")}
    /\ waitErr # Nil /\ ret.err # Nil

\* C11: the capacity given to both scanners is the larger of
\* cfg.LogBufferSize and bufio.MaxScanTokenSize: a configured size below the
\* minimum yields exactly the minimum, one at or above it is used unchanged.
C11_BufferCapacity ==
    /\ \A s \in Streams :
          scanCap[s] # Nil =>
             /\ scanCap[s][1] >= cfg.LogBufferSize
             /\ scanCap[s][1] >= MaxScanTokenSize
             /\ scanCap[s][1] \in {cfg.LogBufferSize, MaxScanTokenSize}
    /\ (pc \in {"Start", "Notify"} \/ childState # "notstarted") =>
          \A s \in Streams : scanCap[s] # Nil

\* Both scanners got the minimum for a configured size just below it.
C11_Witness ==
    /\ cfg.LogBufferSize = MaxScanTokenSize - 1
    /\ \A s \in Streams : scanCap[s] = Some(MaxScanTokenSize)

\* C12: when cfg.CurrentBin() or EnsureBinary(bin) fails, LaunchProcess
\* returns (false, the wrapped error): no child is started, no watcher and no
\* signal forwarder is launched, and neither backup nor installer runs.
C12_FailFast ==
    binErr # Nil =>
        /\ pc = "returned"
        /\ ret = [upgraded |-> FALSE,
                  err |-> IF binErr = Some("CurrentBin")
                             THEN Some("error creating symlink to genesis")
                             ELSE Some("current binary invalid")]
        /\ childState = "notstarted"
        /\ \A s \in Streams : wpc[s] = "idle" /\ scanCap[s] = Nil
        /\ fpc = "idle"
        /\ ~backup.called /\ ~upgradeInvoked

\* EnsureBinary rejected the binary and LaunchProcess has returned.
C12_Witness == binErr = Some("EnsureBinary") /\ pc = "returned"

\* C13: a read error that a watcher recorded before the exit status was
\* recorded replaces neither the exit status nor a descriptor: the result of
\* WaitForUpgradeOrExit is (nil, nil) when the child exited with nil, the exit
\* error when it exited with an error and no descriptor is set, and the
\* descriptor when one was recorded.
C13_EarlyErrorNeverWins ==
    (earlyErr /\ pc = "CheckResult") =>
        IF waitErr = Nil THEN wres = NoResult
        ELSE IF wres.info = Nil THEN wres.err = waitErr
        ELSE wres = [info |-> res.info, err |-> Nil]

\* C14: whenever the aggregator holds a descriptor when cmd.Wait returns, the
\* error cmd.Wait returns is non-nil, so WaitForUpgradeOrExit does not return
\* (nil, nil) while a descriptor is held.
C14_DescriptorImpliesExitError ==
    [][(pc = "Wait" /\ pc' # "Wait" /\ res.info # Nil) =>
          (waitErr' # Nil /\ pc' = "SetError")]_vars

\* C15: the kill is requested only by a watcher that found a valid marker,
\* and only after its SetUpgrade completed: whenever the kill has been
\* requested the aggregator holds a descriptor, and the step that requests it
\* is the step of a watcher past SetUpgrade whose WaitForUpdate returned a
\* descriptor and no error.
C15_KillOnlyAfterUpgrade ==
    [][killRequested' =>
          /\ res'.info # Nil
          /\ ~killRequested =>
                \E s \in Streams :
                    /\ wpc[s] = "Kill" /\ wpc'[s] = "done"
                    /\ wval[s].info # Nil /\ wval[s].err = Nil
                    /\ res.info # Nil]_vars

\* A watcher that found a marker has requested the kill; the other watcher
\* ended on a read error and requested none.
C15_Witness ==
    /\ killRequested
    /\ \A s \in Streams : wpc[s] = "done"
    /\ earlyErr

\* C16: WaitForUpgradeOrExit returns only after the child has exited: while
\* the child runs, LaunchProcess is at cmd.Wait() or before it, has started
\* neither the backup nor the installer and has not returned; so a child that
\* never exits (and emits no marker, which would get it killed) keeps
\* LaunchProcess blocked.
C16_ReturnsOnlyAfterExit ==
    childState = "running" =>
        /\ pc \in {"Notify", "WaitForUpgradeOrExit", "Wait"}
        /\ ~AfterWait
        /\ ~backup.called /\ ~upgradeInvoked
        /\ ~waited

\* LaunchProcess has returned from a run that went through the backup, the
\* child having exited.
C16_Witness ==
    pc = "returned" /\ childState = "exited" /\ backup.called

\* C17: cmd.Process.Kill() on a child that has already exited or been killed
\* is a no-op: the step changes neither the aggregator, nor the child's exit
\* status, nor anything of the process-exit path and of what follows it.
C17_KillAfterExitIsNoOp ==
    [][((\E s \in Streams : wpc[s] = "Kill" /\ wpc'[s] = "done")
          /\ childState = "exited") =>
             /\ res' = res
             /\ childState' = childState /\ exitErr' = exitErr
             /\ UNCHANGED <<mainVars, waited, aborted, tailVars>>]_vars

\* The kill was requested for a child that had exited by itself: its exit
\* status is not that of a killed process.
C17_Witness ==
    /\ killRequested /\ AllWatchersDone
    /\ childState = "exited" /\ exitErr = Some("exit status 1")
    /\ pc = "returned"

\* C18: the verdict is final: once WaitForUpgradeOrExit has returned, no
\* step modifies the aggregator, so that the pair it returned is what the
\* aggregator holds when both watchers have finished.
C18_VerdictFinal ==
    [][AfterWait => res' = res]_vars

\* C19: a signal that reaches the supervisor after the child has exited does
\* not make the forwarder fail: the supervisor is never aborted by the
\* forwarder's log.Fatal once the child has exited.
C19_NoAbortAfterExit ==
    childState = "exited" => ~aborted

=============================================================================
